---- MODULE Spec2Model ----
(***************************************************************************)
(* A model of the DirectLine sample bot's BotFrameworkAdapter:             *)
(*   - post(activities): the outbound dispatcher (botFrameworkAdapter.ts   *)
(*     lines 141-190), a promise that walks the activity list through the  *)
(*     callback chain next(0), next(1), ...                                *)
(*   - listen()/processRequest: the inbound adapter (lines 195-253).       *)
(* JavaScript objects are records; an absent property is an absent field.  *)
(***************************************************************************)
EXTENDS Integers, Sequences, FiniteSets, TLC

VARIABLES posts, requests, onReceive, listeners, context

vars == <<posts, requests, onReceive, listeners, context>>

-----------------------------------------------------------------------------
(* Bounds *)

\* longest activity list handed to one post call
MaxActivities == 3

\* most replies the receive-handler produces for one request
MaxReplies == 1

\* longest activity list of a post call that runs beside another one
MaxConcurrentActivities == 2

-----------------------------------------------------------------------------
(* JavaScript values *)

Undefined == "undefined"

Has(o, f) == f \in DOMAIN o

\* {} as ResourceResponse
EmptyResponse == "{}"

-----------------------------------------------------------------------------
(* Outbound activities: Partial<Activity>, every property optional *)

ServiceUrls == {"", "https://a", "https://b"}

ConversationIds == {"", "c1"}

DelayValues == {-1, 0, 2}

WithServiceUrl(a) == {a} \cup {a @@ [serviceUrl |-> u] : u \in ServiceUrls}

WithConversation(a) == {a} \cup {a @@ [conversation |-> [id |-> c]] : c \in ConversationIds}

MessageActivities ==
    UNION {WithConversation(a) : a \in WithServiceUrl([type |-> "message"])}

DelayActivities ==
    {[type |-> "delay"]} \cup {[type |-> "delay", value |-> v] : v \in DelayValues}

OutboundActivities == MessageActivities \cup DelayActivities

ActivityLists == UNION {[1..n -> OutboundActivities] : n \in 0..MaxActivities}

\* the activities of two post calls that run side by side
ConcurrentActivities ==
    {[type |-> "delay"],
     [type |-> "message", conversation |-> [id |-> "c1"]],
     [type |-> "message", serviceUrl |-> "https://a", conversation |-> [id |-> "c1"]],
     [type |-> "message", serviceUrl |-> "https://b", conversation |-> [id |-> "c1"]]}

ConcurrentLists ==
    UNION {[1..n -> ConcurrentActivities] : n \in 0..MaxConcurrentActivities}

\* what sendToConversation's promise can be fulfilled with
RemoteResults == {Undefined, "res1", "res2"}

\* what sendToConversation's promise can be rejected with
RemoteErrors == {"ECONNRESET", "HTTP 403"}

MissingServiceUrl == "BotFrameworkAdapter: activity missing 'serviceUrl'."

MissingConversationId == "BotFrameworkAdapter: activity missing 'conversation.id'."

-----------------------------------------------------------------------------
(* post(activities) *)

PostIds == {"p1", "p2"}

\* the call made when post calls are looked at one at a time
SinglePost == {"p1"}

NoPending == [kind |-> "none"]

\* One post call: the closure of lines 142-189 (activities, clientCache,
\* responses), the promise (settled: every resolve/reject call made on it, the
\* first one decides), the one callback in flight (pending), and a record of
\* what the call did: netCalls, timers, created, results, failed, completed.
IdlePost ==
    [state |-> "idle", activities |-> <<>>, clientCache |-> {},
     responses |-> <<>>, pending |-> NoPending, settled |-> <<>>,
     netCalls |-> <<>>, timers |-> <<>>, created |-> <<>>,
     results |-> <<>>, failed |-> <<>>, completed |-> {}]

resolve(st, value) ==
    [st EXCEPT !.settled = Append(@, [kind |-> "resolved", value |-> value])]

reject(st, err) ==
    [st EXCEPT !.settled = Append(@, [kind |-> "rejected", value |-> err])]

\* a test for presence only, which lets the empty string through
HasServiceUrlProperty(activity) == Has(activity, "serviceUrl")

\* `if (serviceUrl)`: present and not the empty string
HasServiceUrl(activity) == Has(activity, "serviceUrl") /\ activity.serviceUrl # ""

\* `activity.conversation` alone, the id not looked at
HasConversation(activity) == Has(activity, "conversation")

\* `activity.conversation && activity.conversation.id`
HasConversationId(activity) ==
    /\ Has(activity, "conversation")
    /\ Has(activity.conversation, "id")
    /\ activity.conversation.id # ""

\* createClient without the hasOwnProperty test: a client per activity
createClientUncached(st, activity) ==
    IF HasServiceUrl(activity)
    THEN [st EXCEPT !.clientCache = @ \cup {activity.serviceUrl},
                    !.created = Append(@, activity.serviceUrl)]
    ELSE st

\* createClient's effect on the closure: a ConnectorClient is constructed and
\* cached when the url is not yet a key of clientCache
createClient(st, activity) ==
    IF HasServiceUrl(activity) /\ activity.serviceUrl \notin st.clientCache
    THEN [st EXCEPT !.clientCache = @ \cup {activity.serviceUrl},
                    !.created = Append(@, activity.serviceUrl)]
    ELSE st

\* createClient's return value: the cached client (named by its url) or undefined
clientOf(st, activity) ==
    IF HasServiceUrl(activity) THEN activity.serviceUrl ELSE Undefined

\* `activity.value === undefined ? 1 : activity.value`, which keeps a 0
delayOfUndefinedOnly(activity) ==
    IF Has(activity, "value") THEN activity.value ELSE 1

\* `activity.value || 1`
delayOf(activity) ==
    IF Has(activity, "value") /\ activity.value # 0 THEN activity.value ELSE 1

\* setTimeout(callback, ms): arms the timer of activity i
setTimeout(st, i, ms) ==
    [st EXCEPT !.pending = [kind |-> "timer", i |-> i],
               !.timers = Append(@, [i |-> i, ms |-> ms])]

\* client.conversations.sendToConversation(id, activity): issues the remote call
sendToConversation(st, i, client, activity) ==
    [st EXCEPT !.pending = [kind |-> "send", i |-> i],
               !.netCalls = Append(@, [i |-> i, client |-> client,
                                       conversationId |-> activity.conversation.id])]

\* next(i) with the delay not awaited: the timer is armed and the walk goes on
RECURSIVE nextDelayNotAwaited(_, _)
nextDelayNotAwaited(st, i) ==
    IF i < Len(st.activities)
    THEN LET activity == st.activities[i + 1] IN
         IF activity.type = "delay"
         THEN nextDelayNotAwaited(setTimeout(st, i, delayOf(activity)), i + 1)
         ELSE LET st1 == createClient(st, activity)
                  client == clientOf(st1, activity) IN
              IF client # Undefined
              THEN IF HasConversationId(activity)
                   THEN sendToConversation(st1, i, client, activity)
                   ELSE reject(st1, MissingConversationId)
              ELSE reject(st1, MissingServiceUrl)
    ELSE resolve(st, st.responses)

\* the synchronous part of next(i), lines 155-187
next(st, i) ==
    IF i < Len(st.activities)
    THEN LET activity == st.activities[i + 1] IN
         IF activity.type = "delay"
         THEN setTimeout(st, i, delayOf(activity))
         ELSE LET st1 == createClient(st, activity)
                  client == clientOf(st1, activity) IN
              IF client # Undefined
              THEN IF HasConversationId(activity)
                   THEN sendToConversation(st1, i, client, activity)
                   ELSE reject(st1, MissingConversationId)
              ELSE reject(st1, MissingServiceUrl)
    ELSE resolve(st, st.responses)

\* `result` pushed as it came
responseOfRaw(result) == result

\* `result || {}`
responseOf(result) == IF result = Undefined THEN EmptyResponse ELSE result

\* post(activities): a fresh closure, then next(0)
PostCallAmong(p, lists) ==
    /\ posts[p].state = "idle"
    /\ \E activities \in lists :
           posts' = [posts EXCEPT ![p] =
               next([IdlePost EXCEPT !.state = "called", !.activities = activities], 0)]
    /\ UNCHANGED <<requests, onReceive, listeners, context>>

PostCall(p) == PostCallAmong(p, ActivityLists)

PostCallConcurrent(p) == PostCallAmong(p, ConcurrentLists)

\* the fulfilment callback of sendToConversation, lines 170-172
SendResolves(p, result) ==
    /\ posts[p].pending.kind = "send"
    /\ LET st == posts[p]
           i == st.pending.i
           st1 == [st EXCEPT !.pending = NoPending,
                             !.results = Append(@, [i |-> i, result |-> result]),
                             !.completed = @ \cup {i},
                             !.responses = Append(@, responseOf(result))]
       IN posts' = [posts EXCEPT ![p] = next(st1, i + 1)]
    /\ UNCHANGED <<requests, onReceive, listeners, context>>

\* the rejection callback rejecting and then going on to the next activity
SendRejectsAndContinues(p, err) ==
    /\ posts[p].pending.kind = "send"
    /\ LET st == posts[p]
           i == st.pending.i
           st1 == [st EXCEPT !.pending = NoPending,
                             !.failed = Append(@, [i |-> i, err |-> err])]
       IN posts' = [posts EXCEPT ![p] = next(reject(st1, err), i + 1)]
    /\ UNCHANGED <<requests, onReceive, listeners, context>>

\* the rejection callback issuing the failed remote call once more
SendRejectsAndRetries(p, err) ==
    /\ posts[p].pending.kind = "send"
    /\ LET st == posts[p]
           i == st.pending.i
           activity == st.activities[i + 1]
           st1 == [st EXCEPT !.failed = Append(@, [i |-> i, err |-> err])]
       IN posts' = [posts EXCEPT ![p] =
              sendToConversation(st1, i, clientOf(st1, activity), activity)]
    /\ UNCHANGED <<requests, onReceive, listeners, context>>

\* the rejection callback rejecting every post call that is under way
SendRejectsAbortsAll(p, err) ==
    /\ posts[p].pending.kind = "send"
    /\ LET st == posts[p]
           i == st.pending.i
           st1 == [st EXCEPT !.pending = NoPending,
                             !.failed = Append(@, [i |-> i, err |-> err])]
       IN posts' = [q \in PostIds |->
              IF q = p THEN reject(st1, err)
              ELSE IF posts[q].state = "called" THEN reject(posts[q], err)
              ELSE posts[q]]
    /\ UNCHANGED <<requests, onReceive, listeners, context>>

\* the rejection callback of sendToConversation, lines 173-175
SendRejects(p, err) ==
    /\ posts[p].pending.kind = "send"
    /\ LET st == posts[p]
           i == st.pending.i
           st1 == [st EXCEPT !.pending = NoPending,
                             !.failed = Append(@, [i |-> i, err |-> err])]
       IN posts' = [posts EXCEPT ![p] = reject(st1, err)]
    /\ UNCHANGED <<requests, onReceive, listeners, context>>

\* the timer callback without its next(i + 1): the walk ends at the delay
TimerFiresAndStops(p) ==
    /\ posts[p].pending.kind = "timer"
    /\ LET st == posts[p]
           i == st.pending.i
       IN posts' = [posts EXCEPT ![p] =
              [st EXCEPT !.pending = NoPending,
                         !.completed = @ \cup {i},
                         !.responses = Append(@, EmptyResponse)]]
    /\ UNCHANGED <<requests, onReceive, listeners, context>>

\* the timer callback of a delay activity, lines 160-163
TimerFires(p) ==
    /\ posts[p].pending.kind = "timer"
    /\ LET st == posts[p]
           i == st.pending.i
           st1 == [st EXCEPT !.pending = NoPending,
                             !.completed = @ \cup {i},
                             !.responses = Append(@, EmptyResponse)]
       IN posts' = [posts EXCEPT ![p] = next(st1, i + 1)]
    /\ UNCHANGED <<requests, onReceive, listeners, context>>

-----------------------------------------------------------------------------
(* Inbound requests: WebRequest, lines 12-16 *)

RequestIds == {"r1", "r2"}

\* the request handlers listen() has returned; each is a closure over the
\* adapter (`this`), onReceiveThen records this.onReceive at that moment
ListenerIds == {"l1", "l2"}

NoListener == [created |-> FALSE, onReceiveThen |-> Undefined]

\* the functions that can be assigned to the public onReceive field
Handlers == {"bot", "other"}

\* req.body as the transport left it when it parsed nothing
NoBody == [json |-> "undefined"]

JsonNull == [json |-> "null"]

InboundActivities ==
    {[json |-> "object", type |-> "message", text |-> "hi"],
     [json |-> "object", type |-> "typing"]}

JsonValues == InboundActivities \cup {JsonNull}

\* JSON text is a sequence of tokens; a chunk is a run of tokens
Stringify(v) ==
    IF v.json = "null" THEN <<"null">>
    ELSE <<"{", "\"type\":\"" \o v.type \o "\"">>
         \o (IF Has(v, "text") THEN <<",", "\"text\":\"" \o v.text \o "\"">> ELSE <<>>)
         \o <<"}">>

\* JSON.parse: the value the text is the encoding of, or a SyntaxError
JSONparse(text) ==
    IF \E v \in JsonValues : Stringify(v) = text
    THEN [ok |-> TRUE, value |-> CHOOSE v \in JsonValues : Stringify(v) = text]
    ELSE [ok |-> FALSE, value |-> NoBody]

Prefixes(text) == {SubSeq(text, 1, n) : n \in 0..Len(text)}

\* what a client can put on the wire: a JSON text, or one cut short
WireTexts == UNION {Prefixes(Stringify(v)) : v \in JsonValues}

Headers == {[host |-> "bot"], [host |-> "bot", authorization |-> "Bearer token"]}

\* a request as the transport hands it to the middleware: the body parsed by
\* a body parser (nothing left on the wire), or not parsed at all
InboundRequests ==
    [body : InboundActivities, headers : Headers, wire : {<<>>}]
    \cup [body : {NoBody}, headers : Headers, wire : WireTexts]

\* what the receive-handler can throw or reject with: an Error, or `undefined`
ThrownUndefined == [type |-> "undefined"]

HandlerErrors ==
    {[type |-> "Error", message |-> "boom"], [type |-> "Error", message |-> ""],
     ThrownUndefined}

AbsentRequest ==
    [pc |-> "absent", req |-> [body |-> NoBody, headers |-> [host |-> "bot"], wire |-> <<>>],
     body |-> NoBody, delivered |-> 0, chunks |-> 0, ended |-> FALSE, requestData |-> <<>>, authHeader |-> "",
     validation |-> "none", calls |-> <<>>, handler |-> "none", replies |-> 0,
     error |-> [type |-> "none"],
     sent |-> <<>>, thrown |-> "none",
     via |-> "none", registered |-> FALSE]

\* `if (req.body)`
Truthy(v) == v.json \notin {"undefined", "null"}

\* res.send(status) and res.send(status, body)
send(rq, status) == [rq EXCEPT !.sent = Append(@, [status |-> status])]

sendBody(rq, status, body) ==
    [rq EXCEPT !.sent = Append(@, [status |-> status, body |-> body])]

\* an exception nobody catches: the async function's promise is rejected
throw(rq, name) == [rq EXCEPT !.pc = "crashed", !.thrown = name]

\* processRequest up to its first await, lines 213-218
processRequest(rq) ==
    [rq EXCEPT !.pc = "validating",
               !.authHeader = IF Has(rq.req.headers, "authorization")
                              THEN rq.req.headers.authorization ELSE ""]

\* `await this.onReceive(activity)`, line 227: the call itself
callOnReceiveCaptured(rq, handler) ==
    LET captured == listeners[rq.via].onReceiveThen IN
    IF captured = Undefined
    THEN [sendBody(rq, 500, "this.onReceive is not a function") EXCEPT !.pc = "done"]
    ELSE [rq EXCEPT !.pc = "handling", !.handler = "running",
                    !.calls = Append(@, [handler |-> captured, activity |-> rq.body])]

callOnReceive(rq, handler) ==
    IF handler = Undefined
    THEN [sendBody(rq, 500, "this.onReceive is not a function") EXCEPT !.pc = "done"]
    ELSE [rq EXCEPT !.pc = "handling", !.handler = "running",
                    !.calls = Append(@, [handler |-> handler, activity |-> rq.body])]

\* the middleware listen() returns, lines 196-208
ReceiveAmong(r, reqs) ==
    /\ requests[r].pc = "absent"
    /\ \E req \in reqs, l \in {k \in ListenerIds : listeners[k].created} :
          LET rq == [requests[r] EXCEPT !.req = req, !.body = req.body, !.via = l] IN
          requests' = [requests EXCEPT ![r] =
              IF Truthy(req.body) THEN processRequest(rq)
              ELSE [rq EXCEPT !.pc = "streaming", !.requestData = <<>>]]
    /\ UNCHANGED <<posts, onReceive, listeners, context>>

Receive(r) == ReceiveAmong(r, InboundRequests)

\* the 'data' callback with `requestData = chunk`: the last chunk is kept
DataOverwrites(r) ==
    /\ requests[r].pc = "streaming"
    /\ LET rq == requests[r] IN
       \E n \in 1..(Len(rq.req.wire) - rq.delivered) :
          LET chunk == SubSeq(rq.req.wire, rq.delivered + 1, rq.delivered + n) IN
          requests' = [requests EXCEPT ![r] =
              [rq EXCEPT !.delivered = @ + n, !.chunks = @ + 1, !.requestData = chunk]]
    /\ UNCHANGED <<posts, onReceive, listeners, context>>

\* the 'data' callback dispatching as soon as what has come in parses
DataParsesEagerly(r) ==
    /\ requests[r].pc = "streaming"
    /\ LET rq == requests[r] IN
       \E n \in 1..(Len(rq.req.wire) - rq.delivered) :
          LET chunk == SubSeq(rq.req.wire, rq.delivered + 1, rq.delivered + n)
              rq1 == [rq EXCEPT !.delivered = @ + n, !.chunks = @ + 1,
                                !.requestData = @ \o chunk]
              parsed == JSONparse(rq1.requestData) IN
          requests' = [requests EXCEPT ![r] =
              IF parsed.ok THEN processRequest([rq1 EXCEPT !.body = parsed.value])
              ELSE rq1]
    /\ UNCHANGED <<posts, onReceive, listeners, context>>

\* the 'data' callback, lines 201-203
Data(r) ==
    /\ requests[r].pc = "streaming"
    /\ LET rq == requests[r] IN
       \E n \in 1..(Len(rq.req.wire) - rq.delivered) :
          LET chunk == SubSeq(rq.req.wire, rq.delivered + 1, rq.delivered + n) IN
          requests' = [requests EXCEPT ![r] =
              [rq EXCEPT !.delivered = @ + n, !.chunks = @ + 1,
                         !.requestData = @ \o chunk]]
    /\ UNCHANGED <<posts, onReceive, listeners, context>>

\* the 'end' callback with the parse in a try/catch that answers 400
EndSends400(r) ==
    /\ requests[r].pc = "streaming"
    /\ requests[r].delivered = Len(requests[r].req.wire)
    /\ LET rq == [requests[r] EXCEPT !.ended = TRUE]
           parsed == JSONparse(rq.requestData) IN
       requests' = [requests EXCEPT ![r] =
           IF parsed.ok THEN processRequest([rq EXCEPT !.body = parsed.value])
           ELSE [send(rq, 400) EXCEPT !.pc = "done"]]
    /\ UNCHANGED <<posts, onReceive, listeners, context>>

\* the 'end' callback, lines 204-207
End(r) ==
    /\ requests[r].pc = "streaming"
    /\ requests[r].delivered = Len(requests[r].req.wire)
    /\ LET rq == [requests[r] EXCEPT !.ended = TRUE]
           parsed == JSONparse(rq.requestData) IN
       requests' = [requests EXCEPT ![r] =
           IF parsed.ok THEN processRequest([rq EXCEPT !.body = parsed.value])
           ELSE throw(rq, "SyntaxError")]
    /\ UNCHANGED <<posts, onReceive, listeners, context>>

\* the catch of lines 219-223 without its `return`: 401, then the handler
ValidationFailsNoReturn(r) ==
    /\ requests[r].pc = "validating"
    /\ requests' = [requests EXCEPT ![r] =
           callOnReceive(send([@ EXCEPT !.validation = "failed"], 401), onReceive)]
    /\ UNCHANGED <<posts, onReceive, listeners, context>>

\* assertValidActivity rejects: the catch of lines 219-223
ValidationFails(r) ==
    /\ requests[r].pc = "validating"
    /\ requests' = [requests EXCEPT ![r] =
           [send([@ EXCEPT !.validation = "failed"], 401) EXCEPT !.pc = "done"]]
    /\ UNCHANGED <<posts, onReceive, listeners, context>>

\* line 227 without its `await`: the handler is called and 202 sent at once
ValidationSucceedsNoAwait(r) ==
    /\ requests[r].pc = "validating"
    /\ requests' = [requests EXCEPT ![r] =
           send(callOnReceive([@ EXCEPT !.validation = "ok",
                                    !.registered = (onReceive # Undefined)], onReceive), 202)]
    /\ UNCHANGED <<posts, onReceive, listeners, context>>

\* assertValidActivity is fulfilled: on to line 227
ValidationSucceeds(r) ==
    /\ requests[r].pc = "validating"
    /\ requests' = [requests EXCEPT ![r] =
           callOnReceive([@ EXCEPT !.validation = "ok",
                                    !.registered = (onReceive # Undefined)], onReceive)]
    /\ UNCHANGED <<posts, onReceive, listeners, context>>

\* the receive-handler, while it runs, hands a reply to the bot
HandlerReplies(r) ==
    /\ requests[r].pc = "handling"
    /\ requests[r].replies < MaxReplies
    /\ requests' = [requests EXCEPT ![r].replies = @ + 1]
    /\ UNCHANGED <<posts, onReceive, listeners, context>>

\* the receive-handler's promise is fulfilled: line 230
HandlerResolves(r) ==
    /\ requests[r].pc = "handling"
    /\ requests' = [requests EXCEPT ![r] =
           [send([@ EXCEPT !.handler = "resolved"], 202) EXCEPT !.pc = "done"]]
    /\ UNCHANGED <<posts, onReceive, listeners, context>>

\* the catch of lines 231-233 with `res.send(500)`: the message is dropped
HandlerRejectsNoMessage(r, err) ==
    /\ requests[r].pc = "handling"
    /\ LET rq == [requests[r] EXCEPT !.handler = "rejected", !.error = err] IN
       requests' = [requests EXCEPT ![r] = [send(rq, 500) EXCEPT !.pc = "done"]]
    /\ UNCHANGED <<posts, onReceive, listeners, context>>

\* the receive-handler throws or its promise is rejected: the catch of
\* lines 231-233, where reading `.message` of undefined throws in turn
HandlerRejects(r, err) ==
    /\ requests[r].pc = "handling"
    /\ LET rq == [requests[r] EXCEPT !.handler = "rejected", !.error = err] IN
       requests' = [requests EXCEPT ![r] =
           IF err = ThrownUndefined THEN throw(rq, "TypeError")
           ELSE [sendBody(rq, 500, err.message) EXCEPT !.pc = "done"]]
    /\ UNCHANGED <<posts, onReceive, listeners, context>>

-----------------------------------------------------------------------------

\* the state once app.js has run: the adapter is constructed, its listen()
\* middleware is on the route and `new Bot(adapter)` has set onReceive
\* ---------------------------------------------------------------------
\* The adapter from its construction on: listen() and the registration of
\* the receive-handler

\* listen(), lines 195-210: returns a new request handler closed over `this`
Listen(l) ==
    /\ ~listeners[l].created
    /\ listeners' = [listeners EXCEPT ![l] =
                        [created |-> TRUE, onReceiveThen |-> onReceive]]
    /\ UNCHANGED <<posts, requests, onReceive, context>>

\* the Bot the adapter is handed to assigns the public onReceive field; a
\* handler is supplied once per adapter instance
SetOnReceive(h) ==
    /\ onReceive = Undefined
    /\ onReceive' = h
    /\ UNCHANGED <<posts, requests, listeners, context>>

\* authenticated requests: a parsed body, or a complete JSON text on the wire
AdapterRequests ==
    [body : InboundActivities,
     headers : {[host |-> "bot", authorization |-> "Bearer token"]},
     wire : {<<>>}]
    \cup [body : {NoBody},
          headers : {[host |-> "bot", authorization |-> "Bearer token"]},
          wire : {Stringify([json |-> "object", type |-> "typing"])}]

ReceiveAuthenticated(r) == ReceiveAmong(r, AdapterRequests)

\* ---------------------------------------------------------------------
\* The bot's receive-handler of app.js

\* a string is a sequence of tokens: a space, a word, or one of the phrases
\* in one of its spellings
MaxTextLen == 3

TextTokens ==
    {" ", "Hello",
     "Show me a hero card", "show me a hero card",
     "Send me a BotFramework image", "send me a botframework image"}

Texts == UNION {[1..n -> TextTokens] : n \in 0..MaxTextLen}

\* String.prototype.toLowerCase
toLowerCaseToken(tok) ==
    CASE tok = "Hello" -> "hello"
      [] tok = "Show me a hero card" -> "show me a hero card"
      [] tok = "Send me a BotFramework image" -> "send me a botframework image"
      [] OTHER -> tok

toLowerCase(text) == [k \in DOMAIN text |-> toLowerCaseToken(text[k])]

\* String.prototype.trim
RECURSIVE trimStart(_)
trimStart(text) ==
    IF text # <<>> /\ Head(text) = " " THEN trimStart(Tail(text)) ELSE text

RECURSIVE trimEnd(_)
trimEnd(text) ==
    IF text # <<>> /\ text[Len(text)] = " "
    THEN trimEnd(SubSeq(text, 1, Len(text) - 1)) ELSE text

trim(text) == trimEnd(trimStart(text))

instructions ==
    <<"Welcome to the Bot to showcase the DirectLine API. Send 'Show me a hero card' or 'Send me a BotFramework image' to see how the DirectLine client supports custom channel data. Any other message will be echoed.">>

\* MessageStyler.attachment(CardStyler.heroCard(title, text))
heroCardMessage ==
    [attachment |-> [card |-> "heroCard", title |-> "Sample Hero Card",
                     text |-> "Displayed in the DirectLine client"]]

\* MessageStyler.contentUrl(url, 'image/jpeg')
imageMessage ==
    [contentUrl |-> "https://reef-free.imgix.net/content/places/whitehaven-beach-39957.jpg?w=768&h=433&fit=crop&crop=center&auto=format",
     contentType |-> "image/jpeg"]

Members == {[id |-> "default-user"], [id |-> "bot"]}

BotRequests ==
    [type : {"message"}, text : Texts]
    \cup {[type |-> "message"], [type |-> "typing"]}
    \cup [type : {"conversationUpdate"},
          membersAdded : {<<>>} \cup {<<m>> : m \in Members}
                         \cup {<<m, n>> : m \in Members, n \in Members}]

IdleContext ==
    [state |-> "idle", request |-> [type |-> "none"], replies |-> <<>>,
     thrown |-> "none"]

\* context.reply(message)
reply(ctx, message) == [ctx EXCEPT !.replies = Append(@, message)]

\* lines 31-54
onMessage(ctx) ==
    LET text == toLowerCase(trim(IF Has(ctx.request, "text") /\ ctx.request.text # <<>>
                                 THEN ctx.request.text ELSE <<>>))
    IN  CASE text = <<"show me a hero card">> -> reply(ctx, heroCardMessage)
          [] text = <<"send me a botframework image">> -> reply(ctx, imageMessage)
          [] OTHER -> reply(ctx, [text |-> <<"sorry I didnt get that">>])

\* lines 57-59; membersAdded[0] of an empty list is undefined and its .id throws
onConversationUpdate(ctx) ==
    IF ctx.request.membersAdded = <<>>
    THEN [ctx EXCEPT !.thrown = "TypeError"]
    ELSE IF ctx.request.membersAdded[1].id = "default-user"
         THEN reply(ctx, [text |-> instructions])
         ELSE ctx

\* the callback passed to bot.onReceive, lines 30-60
botOnReceive(ctx) ==
    LET afterMessage == IF ctx.request.type = "message" THEN onMessage(ctx) ELSE ctx
    IN  IF ctx.request.type = "conversationUpdate"
        THEN onConversationUpdate(afterMessage)
        ELSE afterMessage

BotReceives ==
    /\ context.state = "idle"
    /\ \E request \in BotRequests :
          context' = botOnReceive([IdleContext EXCEPT !.state = "done",
                                                      !.request = request])
    /\ UNCHANGED <<posts, requests, onReceive, listeners>>

BotDone ==
    /\ context.state = "done"
    /\ context' = IdleContext
    /\ UNCHANGED <<posts, requests, onReceive, listeners>>

Init ==
    /\ posts = [p \in PostIds |-> IdlePost]
    /\ requests = [r \in RequestIds |-> AbsentRequest]
    /\ onReceive = "bot"
    /\ listeners = [l \in ListenerIds |->
                       IF l = "l1" THEN [created |-> TRUE, onReceiveThen |-> Undefined]
                       ELSE NoListener]
    /\ context = IdleContext

NextPost ==
    \/ \E p \in SinglePost : PostCall(p)
    \/ \E p \in SinglePost, result \in RemoteResults : SendResolves(p, result)
    \/ \E p \in SinglePost, err \in RemoteErrors : SendRejects(p, err)
    \/ \E p \in SinglePost : TimerFires(p)

SpecPost == Init /\ [][NextPost]_vars

\* one post call under the scheduling Node gives it: a timer that is armed
\* fires, a remote call that was issued is answered or fails
FairPost ==
    /\ \A p \in SinglePost : WF_vars(TimerFires(p))
    /\ \A p \in SinglePost :
          WF_vars((\E result \in RemoteResults : SendResolves(p, result))
                    \/ (\E err \in RemoteErrors : SendRejects(p, err)))

SpecPostFair == Init /\ [][NextPost]_vars /\ FairPost

\* two post calls side by side, their callbacks in any order
NextPosts ==
    \/ \E p \in PostIds : PostCallConcurrent(p)
    \/ \E p \in PostIds, result \in RemoteResults : SendResolves(p, result)
    \/ \E p \in PostIds, err \in RemoteErrors : SendRejects(p, err)
    \/ \E p \in PostIds : TimerFires(p)

SpecPosts == Init /\ [][NextPosts]_vars

NextListen ==
    \/ \E r \in RequestIds : Receive(r)
    \/ \E r \in RequestIds : Data(r)
    \/ \E r \in RequestIds : End(r)
    \/ \E r \in RequestIds : ValidationFails(r)
    \/ \E r \in RequestIds : ValidationSucceeds(r)
    \/ \E r \in RequestIds : HandlerReplies(r)
    \/ \E r \in RequestIds : HandlerResolves(r)
    \/ \E r \in RequestIds, err \in HandlerErrors : HandlerRejects(r, err)

SpecListen == Init /\ [][NextListen]_vars

\* the state after `new BotFrameworkAdapter(settings)`, lines 79-84
InitAdapter ==
    /\ posts = [p \in PostIds |-> IdlePost]
    /\ requests = [r \in RequestIds |-> AbsentRequest]
    /\ onReceive = Undefined
    /\ listeners = [l \in ListenerIds |-> NoListener]
    /\ context = IdleContext

NextAdapter ==
    \/ \E l \in ListenerIds : Listen(l)
    \/ \E h \in Handlers : SetOnReceive(h)
    \/ \E r \in RequestIds : ReceiveAuthenticated(r)
    \/ \E r \in RequestIds : Data(r)
    \/ \E r \in RequestIds : End(r)
    \/ \E r \in RequestIds : ValidationFails(r)
    \/ \E r \in RequestIds : ValidationSucceeds(r)
    \/ \E r \in RequestIds : HandlerReplies(r)
    \/ \E r \in RequestIds : HandlerResolves(r)
    \/ \E r \in RequestIds, err \in HandlerErrors : HandlerRejects(r, err)

SpecAdapter == InitAdapter /\ [][NextAdapter]_vars

NextBot ==
    \/ BotReceives
    \/ BotDone

SpecBot == Init /\ [][NextBot]_vars

-----------------------------------------------------------------------------
(* Reading a post call's record *)

Range(seq) == {seq[k] : k \in DOMAIN seq}

\* the indices of a call's activity list, 0-based as in the source
Indices(st) == 0..(Len(st.activities) - 1)

At(st, i) == st.activities[i + 1]

\* indices whose remote call was issued, whose timer was armed
Sent(st) == {c.i : c \in Range(st.netCalls)}

Delayed(st) == {t.i : t \in Range(st.timers)}

\* next(i) ran for activity i: the call began with it, or i-1 completed
Reached(st, i) ==
    /\ st.state = "called"
    /\ i \in Indices(st)
    /\ (i = 0 \/ (i - 1) \in st.completed)

\* a promise is decided by the first resolve/reject call made on it
Pending(st) == st.settled = <<>>

Resolved(st) == st.settled # <<>> /\ st.settled[1].kind = "resolved"

Rejected(st) == st.settled # <<>> /\ st.settled[1].kind = "rejected"

RejectedWith(st, err) == Rejected(st) /\ st.settled[1].value = err

IsDelay(a) == a.type = "delay"

LacksServiceUrl(a) == ~Has(a, "serviceUrl") \/ a.serviceUrl = ""

LacksConversationId(a) ==
    \/ ~Has(a, "conversation")
    \/ ~Has(a.conversation, "id")
    \/ a.conversation.id = ""

-----------------------------------------------------------------------------
(* Claims about post *)

\* C2: within one post call the activities are processed strictly in input
\* order: the remote send or the delay timer of activity i+1 is started only
\* after activity i's remote call completed successfully or its timer fired,
\* no activity is started twice, and the remote calls reach the channel in the
\* order of the list, each for its own activity.
C2_InOrder ==
    \A p \in PostIds :
        LET st == posts[p] IN
        /\ \A j \in Sent(st) \cup Delayed(st) :
              /\ j \in Indices(st)
              /\ j > 0 => (j - 1) \in st.completed
        /\ \A j \in st.completed : j \in Sent(st) \cup Delayed(st)
        /\ \A k \in DOMAIN st.netCalls :
              /\ ~IsDelay(At(st, st.netCalls[k].i))
              /\ st.netCalls[k].client = At(st, st.netCalls[k].i).serviceUrl
              /\ st.netCalls[k].conversationId = At(st, st.netCalls[k].i).conversation.id
              /\ \A l \in DOMAIN st.netCalls : k < l => st.netCalls[k].i < st.netCalls[l].i
        /\ \A k \in DOMAIN st.timers :
              /\ IsDelay(At(st, st.timers[k].i))
              /\ \A l \in DOMAIN st.timers : k < l => st.timers[k].i < st.timers[l].i

\* post([a1, delay, a3]): a1 was sent and completed, the timer fired, a3 is out
C2_Witness ==
    \E p \in PostIds :
        LET st == posts[p] IN
        /\ Len(st.activities) = 3
        /\ IsDelay(At(st, 1))
        /\ Sent(st) = {0, 2}
        /\ Delayed(st) = {1}
        /\ st.completed = {0, 1}
        /\ st.pending.kind = "send"

\* C3: when the remote call of activity i fails, the dispatch stops at once:
\* nothing is pending, no activity after i is ever sent or delayed, and the
\* post call is rejected with exactly the error of that remote call.
C3_StopsOnRemoteFailure ==
    \A p \in PostIds :
        LET st == posts[p] IN
        \A k \in DOMAIN st.failed :
            /\ st.pending = NoPending
            /\ \A j \in Sent(st) \cup Delayed(st) : j <= st.failed[k].i
            /\ st.failed[k].i \notin st.completed
            /\ RejectedWith(st, st.failed[k].err)
            /\ Len(st.settled) = 1
            /\ Len(st.failed) = 1

\* post([a1, a2]) with a1's remote call failed
C3_Witness ==
    \E p \in PostIds :
        LET st == posts[p] IN
        /\ Len(st.activities) >= 2
        /\ ~IsDelay(At(st, 1)) /\ ~LacksServiceUrl(At(st, 1)) /\ ~LacksConversationId(At(st, 1))
        /\ Len(st.failed) = 1
        /\ st.failed[1].i = 0
        /\ RejectedWith(st, "HTTP 403")

\* C7 as stated: whenever the activity at index k lacks a serviceUrl, whatever
\* its kind, no network call is issued for index k or any later index.
C7_AsStated ==
    \A p \in PostIds :
        LET st == posts[p] IN
        \A k \in Indices(st) :
            LacksServiceUrl(At(st, k)) => \A j \in Sent(st) : j < k

\* C7, amended: when the non-delay activity at index k has no serviceUrl or an
\* empty one, no network call is issued for index k or any later index, and
\* once the walk reaches k the post call is rejected with the missing-serviceUrl
\* error; post([a]) with such an a is rejected so with zero network calls.
C7_MissingServiceUrl ==
    \A p \in PostIds :
        LET st == posts[p] IN
        \A k \in Indices(st) :
            (~IsDelay(At(st, k)) /\ LacksServiceUrl(At(st, k))) =>
                /\ \A j \in Sent(st) : j < k
                /\ Reached(st, k) =>
                      /\ RejectedWith(st, MissingServiceUrl)
                      /\ st.pending = NoPending
                      /\ Len(st.netCalls) <= k
                /\ (Rejected(st) /\ k = 0) => st.netCalls = <<>>

\* a message without serviceUrl reached at index 1, after one network call
C7_Witness ==
    \E p \in PostIds :
        LET st == posts[p] IN
        /\ Len(st.activities) >= 2
        /\ ~IsDelay(At(st, 1)) /\ LacksServiceUrl(At(st, 1))
        /\ Reached(st, 1)
        /\ Sent(st) = {0}
        /\ RejectedWith(st, MissingServiceUrl)

\* C8: no sendToConversation call is ever issued for an activity without a
\* non-empty serviceUrl or without a non-empty conversation.id; reaching such a
\* non-delay activity rejects the post call, with the missing-serviceUrl error
\* when the serviceUrl is missing and the missing-conversation.id error
\* otherwise; a delay activity needs neither field and gets its timer.
C8_NoSendWithoutAddress ==
    \A p \in PostIds :
        LET st == posts[p] IN
        /\ \A j \in Sent(st) :
              ~LacksServiceUrl(At(st, j)) /\ ~LacksConversationId(At(st, j))
        /\ \A k \in Indices(st) :
              Reached(st, k) =>
                  IF IsDelay(At(st, k)) THEN k \in Delayed(st)
                  ELSE IF LacksServiceUrl(At(st, k))
                       THEN RejectedWith(st, MissingServiceUrl) /\ k \notin Sent(st)
                  ELSE IF LacksConversationId(At(st, k))
                       THEN RejectedWith(st, MissingConversationId) /\ k \notin Sent(st)
                  ELSE k \in Sent(st)

\* a message with a serviceUrl and an empty conversation.id was reached after
\* a delay that carried neither field
C8_Witness ==
    \E p \in PostIds :
        LET st == posts[p] IN
        /\ Len(st.activities) >= 2
        /\ IsDelay(At(st, 0))
        /\ ~IsDelay(At(st, 1))
        /\ ~LacksServiceUrl(At(st, 1))
        /\ Has(At(st, 1), "conversation") /\ At(st, 1).conversation.id = ""
        /\ Reached(st, 1)
        /\ RejectedWith(st, MissingConversationId)

\* the timer armed for the delay activity at index k
TimerOf(st, k) == CHOOSE t \in Range(st.timers) : t.i = k

\* C9 as stated: the wait of a delay activity is 1 whenever its value is
\* unspecified, zero or negative.
C9_AsStated ==
    \A p \in PostIds :
        LET st == posts[p] IN
        \A k \in Delayed(st) :
            (~Has(At(st, k), "value") \/ At(st, k).value <= 0) => TimerOf(st, k).ms = 1

\* C9, amended: a delay activity issues no network call; its timer is armed
\* with 1 when value is unspecified or zero and with value itself otherwise,
\* a negative value included; when the timer fires an empty Response is
\* recorded at the activity's position and the walk goes on to the next one.
C9_Delay ==
    \A p \in PostIds :
        LET st == posts[p] IN
        \A k \in Indices(st) :
            (IsDelay(At(st, k)) /\ Reached(st, k)) =>
                /\ k \notin Sent(st)
                /\ k \in Delayed(st)
                /\ TimerOf(st, k).ms =
                      (IF ~Has(At(st, k), "value") \/ At(st, k).value = 0
                       THEN 1 ELSE At(st, k).value)
                /\ Pending(st) /\ k \notin st.completed =>
                      st.pending = [kind |-> "timer", i |-> k]
                /\ k \in st.completed =>
                      /\ Len(st.responses) > k
                      /\ st.responses[k + 1] = EmptyResponse
                      /\ (k + 1) \in Indices(st) =>
                            \/ (k + 1) \in Sent(st) \cup Delayed(st)
                            \/ Rejected(st)
                      /\ (k + 1) \notin Indices(st) => Resolved(st)

\* a delay whose value is 0 has fired and the next activity has been sent
C9_Witness ==
    \E p \in PostIds :
        LET st == posts[p] IN
        /\ Len(st.activities) >= 2
        /\ IsDelay(At(st, 0))
        /\ Has(At(st, 0), "value") /\ At(st, 0).value = 0
        /\ 0 \in st.completed
        /\ 1 \in Sent(st)

\* the remote result recorded for activity i
ResultOf(st, i) == (CHOOSE r \in Range(st.results) : r.i = i).result

\* C10: when post succeeds the promise's value has exactly one Response per
\* input activity, in input order: position i holds the remote Response of
\* activity i, or an empty Response when activity i is a delay or its remote
\* call returned no body; post([]) succeeds with an empty sequence and no
\* network call.
C10_OneResponsePerActivity ==
    \A p \in PostIds :
        LET st == posts[p] IN
        /\ Resolved(st) =>
              LET value == st.settled[1].value IN
              /\ Len(value) = Len(st.activities)
              /\ \A i \in Indices(st) :
                    value[i + 1] =
                        IF IsDelay(At(st, i)) THEN EmptyResponse
                        ELSE IF ResultOf(st, i) = Undefined THEN EmptyResponse
                        ELSE ResultOf(st, i)
              /\ Len(st.netCalls) = Cardinality({i \in Indices(st) : ~IsDelay(At(st, i))})
        /\ (st.state = "called" /\ st.activities = <<>>) =>
              /\ Resolved(st)
              /\ st.settled[1].value = <<>>
              /\ st.netCalls = <<>>

\* post([a1, delay, a3]) succeeded; a1 returned a body and a3 none
C10_Witness ==
    \E p \in PostIds :
        LET st == posts[p] IN
        /\ Resolved(st)
        /\ Len(st.activities) = 3
        /\ ~IsDelay(At(st, 0)) /\ IsDelay(At(st, 1)) /\ ~IsDelay(At(st, 2))
        /\ st.settled[1].value = <<"res1", EmptyResponse, EmptyResponse>>
        /\ ResultOf(st, 2) = Undefined

-----------------------------------------------------------------------------
(* Claims about listen and processRequest *)

\* the request carries valid Activity data: parsed by the transport, or on
\* the wire as the complete encoding of an Activity
ValidBody(rq) ==
    \/ rq.req.body \in InboundActivities
    \/ rq.req.body = NoBody /\ \E a \in InboundActivities : Stringify(a) = rq.req.wire

ActivityOf(rq) ==
    IF rq.req.body \in InboundActivities THEN rq.req.body
    ELSE CHOOSE a \in InboundActivities : Stringify(a) = rq.req.wire

Statuses(rq) == {s.status : s \in Range(rq.sent)}

\* C1: when token validation fails, for whatever reason and also with no
\* Authorization header, the adapter answers 401 with no body and the
\* receive-handler is never invoked for that request; the handler is invoked
\* only after the validation of that same request succeeded.
C1_Unauthorized ==
    \A r \in RequestIds :
        LET rq == requests[r] IN
        /\ rq.validation = "failed" =>
              /\ rq.sent = <<[status |-> 401]>>
              /\ rq.calls = <<>>
              /\ rq.handler = "none"
              /\ rq.pc = "done"
        /\ rq.calls # <<>> => rq.validation = "ok"
        /\ 401 \in Statuses(rq) => rq.validation = "failed"

\* a request without Authorization header was refused while the other
\* request, validated, is with the handler
C1_Witness ==
    \E r, q \in RequestIds :
        /\ ~Has(requests[r].req.headers, "authorization")
        /\ requests[r].authHeader = ""
        /\ requests[r].validation = "failed"
        /\ requests[r].sent = <<[status |-> 401]>>
        /\ requests[q].pc = "handling"

\* C4: a request whose body is valid Activity data and whose token validates
\* has the receive-handler invoked exactly once, with the parsed Activity,
\* whether the transport parsed the body or the body came in chunks and was
\* parsed at the end event (where a valid body raises no parse error).
C4_HandlerOnce ==
    \A r \in RequestIds :
        LET rq == requests[r] IN
        /\ Len(rq.calls) <= 1
        /\ ValidBody(rq) =>
              /\ rq.thrown # "SyntaxError"
              /\ rq.pc \notin {"absent", "streaming"} => rq.body = ActivityOf(rq)
              /\ rq.validation = "ok" =>
                    /\ Len(rq.calls) = 1
                    /\ rq.calls[1].activity = ActivityOf(rq)
                    /\ rq.calls[1].handler = onReceive

\* one request parsed by the transport and one streamed in several chunks
\* have both reached the handler
C4_Witness ==
    \E r, q \in RequestIds :
        /\ requests[r].req.body \in InboundActivities
        /\ Len(requests[r].calls) = 1
        /\ requests[q].req.body = NoBody
        /\ requests[q].chunks >= 2
        /\ Len(requests[q].calls) = 1
        /\ requests[q].calls[1].activity =
              [json |-> "object", type |-> "message", text |-> "hi"]

\* C5: when validation succeeded and the receive-handler completed without
\* error the adapter answers 202 with no body; a 202 is sent only once the
\* handler has completed, never while it runs, and whether or not the handler
\* produced replies.
C5_Accepted ==
    \A r \in RequestIds :
        LET rq == requests[r] IN
        /\ rq.handler = "resolved" =>
              /\ rq.validation = "ok"
              /\ rq.sent = <<[status |-> 202]>>
        /\ rq.handler = "running" => rq.sent = <<>>
        /\ \A k \in DOMAIN rq.sent :
              rq.sent[k].status = 202 =>
                  /\ rq.handler = "resolved"
                  /\ ~Has(rq.sent[k], "body")

\* two requests answered 202, one whose handler replied and one whose did not
C5_Witness ==
    \E r, q \in RequestIds :
        /\ requests[r].handler = "resolved" /\ requests[r].replies = 0
        /\ requests[r].sent = <<[status |-> 202]>>
        /\ requests[q].handler = "resolved" /\ requests[q].replies > 0
        /\ requests[q].sent = <<[status |-> 202]>>

\* C6: when validation succeeded and the receive-handler throws or rejects
\* with an Error, the adapter answers 500 with the Error's message as body
\* and sends no 202 for that request.
C6_HandlerFailure ==
    \A r \in RequestIds :
        LET rq == requests[r] IN
        (rq.handler = "rejected" /\ rq.error.type = "Error") =>
            /\ rq.validation = "ok"
            /\ rq.sent = <<[status |-> 500, body |-> rq.error.message]>>
            /\ 202 \notin Statuses(rq)

\* a handler that replied and then failed with Error("boom")
C6_Witness ==
    \E r \in RequestIds :
        /\ requests[r].handler = "rejected"
        /\ requests[r].error = [type |-> "Error", message |-> "boom"]
        /\ requests[r].replies > 0
        /\ requests[r].sent = <<[status |-> 500, body |-> "boom"]>>

-----------------------------------------------------------------------------
(* Further claims about post *)

NoDuplicates(seq) == \A k, l \in DOMAIN seq : k # l => seq[k] # seq[l]

\* the serviceUrls of the non-delay activities the walk of a call has reached
UrlsReached(st) ==
    {At(st, k).serviceUrl :
        k \in {j \in Indices(st) :
                  Reached(st, j) /\ ~IsDelay(At(st, j)) /\ ~LacksServiceUrl(At(st, j))}}

\* C11: within one post call at most one ConnectorClient is constructed per
\* distinct serviceUrl: the first non-delay activity reached with a url
\* constructs it and the later ones with that url use the cached one; the
\* cache of a call holds the urls that call has reached and no other, so it
\* starts empty and nothing is carried over from another post call.
C11_OneClientPerUrl ==
    \A p \in PostIds :
        LET st == posts[p] IN
        /\ NoDuplicates(st.created)
        /\ Range(st.created) = st.clientCache
        /\ st.clientCache = UrlsReached(st)
        /\ \A c \in Range(st.netCalls) : c.client \in st.clientCache

\* one call sent two activities to the same url through one client, and the
\* other call constructed a client of its own for that url
C11_Witness ==
    \E p, q \in PostIds :
        /\ p # q
        /\ Len(posts[p].netCalls) = 2
        /\ posts[p].netCalls[1].client = "https://a"
        /\ posts[p].netCalls[2].client = "https://a"
        /\ posts[p].created = <<"https://a">>
        /\ posts[q].created = <<"https://a">>

\* C15: within one post call sendToConversation is invoked at most once for
\* each activity index, whether the call succeeds, stops at an activity
\* without address or stops at a failed remote call: a failed activity is
\* not retried, a sent one is not sent again.
C15_AtMostOnce ==
    \A p \in PostIds :
        LET st == posts[p] IN
        /\ \A i \in Indices(st) :
              Cardinality({k \in DOMAIN st.netCalls : st.netCalls[k].i = i}) <= 1
        /\ \A f \in Range(st.failed) : st.pending = NoPending
        /\ Len(st.netCalls) <= Len(st.activities)

\* the second of three remote calls failed, two calls were made in all
C15_Witness ==
    \E p \in PostIds :
        LET st == posts[p] IN
        /\ Len(st.activities) = 3
        /\ Len(st.failed) = 1
        /\ st.failed[1].i = 1
        /\ Len(st.netCalls) = 2
        /\ Rejected(st)

PostErrors == RemoteErrors \cup {MissingServiceUrl, MissingConversationId}

SettledOnce(st) ==
    /\ Len(st.settled) <= 1
    /\ st.settled # <<>> => st.pending = NoPending
    /\ Resolved(st) =>
          /\ st.settled[1].value = st.responses
          /\ Len(st.responses) = Len(st.activities)
          /\ st.failed = <<>>
    /\ Rejected(st) => st.settled[1].value \in PostErrors

\* C16: a post call settles once, either resolved with the complete sequence
\* of responses or rejected with an error, never both: resolve or reject is
\* called at most once, a rejected call carries the error and not the
\* responses collected so far, and once the call has settled no later step
\* changes it.
C16_SettlesOnce ==
    /\ [](\A p \in PostIds : SettledOnce(posts[p]))
    /\ [][\A p \in PostIds : posts[p].settled # <<>> => posts'[p] = posts[p]]_vars

\* a call rejected at its third activity, two responses collected and dropped
C16_Witness ==
    \E p \in PostIds :
        LET st == posts[p] IN
        /\ Rejected(st)
        /\ Len(st.responses) = 2
        /\ st.settled[1].value \in RemoteErrors

\* the call stopped for a reason of its own: a remote call of its own failed,
\* or its walk reached an activity of its own without address
OwnFault(st) ==
    \/ st.failed # <<>>
    \/ \E k \in Indices(st) :
          /\ Reached(st, k)
          /\ ~IsDelay(At(st, k))
          /\ LacksServiceUrl(At(st, k)) \/ LacksConversationId(At(st, k))

InOwnOrder(st) ==
    \A k \in DOMAIN st.netCalls :
        /\ st.netCalls[k].client = At(st, st.netCalls[k].i).serviceUrl
        /\ \A l \in DOMAIN st.netCalls : k < l => st.netCalls[k].i < st.netCalls[l].i

\* C19: two post calls that run side by side have their remote calls in
\* flight together, in any order, yet each call sends its own activities in
\* its own input order; a step of one call changes nothing of the other, and
\* a call is rejected only for a fault of its own: a remote failure in one
\* call leaves the other one running, or resolved.
C19_Concurrent ==
    /\ [](\A p \in PostIds :
             LET st == posts[p] IN
             /\ InOwnOrder(st)
             /\ Rejected(st) <=> OwnFault(st)
             /\ st.failed # <<>> => RejectedWith(st, st.failed[1].err)
             /\ (st.state = "called" /\ ~OwnFault(st)) =>
                   Resolved(st) \/ st.pending # NoPending)
    /\ [][\A p, q \in PostIds :
             (p # q /\ posts'[p] # posts[p]) => posts'[q] = posts[q]]_vars

\* the first remote call of one call failed; the other call has sent both of
\* its activities and waits for the second answer
C19_Witness ==
    \E p, q \in PostIds :
        /\ p # q
        /\ Len(posts[p].failed) = 1
        /\ posts[p].failed[1].i = 0
        /\ Rejected(posts[p])
        /\ Len(posts[q].netCalls) = 2
        /\ posts[q].pending = [kind |-> "send", i |-> 1]
        /\ Pending(posts[q])

\* C20: a post call over a finite list settles in the end when every remote
\* call issued is answered or fails and every timer armed fires; it does not
\* settle while one of its remote calls or timers is outstanding.
C20_Settles ==
    /\ \A p \in SinglePost : (posts[p].state = "called") ~> (posts[p].settled # <<>>)
    /\ [](\A p \in PostIds : posts[p].pending # NoPending => posts[p].settled = <<>>)

\* a call of a delay, a message and a delay has run to its end
C20_Witness ==
    \E p \in SinglePost :
        LET st == posts[p] IN
        /\ Len(st.activities) = 3
        /\ IsDelay(At(st, 0)) /\ ~IsDelay(At(st, 1)) /\ IsDelay(At(st, 2))
        /\ st.completed = {0, 1, 2}
        /\ Resolved(st)

-----------------------------------------------------------------------------
(* Further claims about listen and processRequest *)

\* the body was left to the adapter: the transport parsed nothing
Streamed(rq) == rq.pc # "absent" /\ rq.req.body = NoBody

ValidJson(text) == \E v \in JsonValues : Stringify(v) = text

\* C12: for a request whose body the transport did not parse, the adapter
\* neither parses, validates, invokes the receive-handler nor answers before
\* the end event: after any number of data chunks, none included, and no end
\* event, the handler has not been invoked.
C12_NothingBeforeEnd ==
    \A r \in RequestIds :
        LET rq == requests[r] IN
        (Streamed(rq) /\ ~rq.ended) =>
            /\ rq.pc = "streaming"
            /\ rq.body = NoBody
            /\ rq.validation = "none"
            /\ rq.calls = <<>>
            /\ rq.sent = <<>>
            /\ rq.thrown = "none"

\* a complete Activity has come in, in two chunks or more, and the end event
\* has not: the other request, with no chunk at all, waits as well
C12_Witness ==
    \E r, q \in RequestIds :
        /\ Streamed(requests[r]) /\ ~requests[r].ended
        /\ requests[r].chunks >= 2
        /\ requests[r].requestData \in {Stringify(a) : a \in InboundActivities}
        /\ Streamed(requests[q]) /\ ~requests[q].ended
        /\ requests[q].chunks = 0
        /\ requests[q].calls = <<>>

\* C17: when a streamed body is not valid JSON the parse failure of the end
\* event leaves the callback as an exception nobody handles: the token is not
\* validated, the receive-handler is not invoked and no status, be it 400,
\* 401, 202 or 500, is sent for that request.
C17_ParseFailure ==
    \A r \in RequestIds :
        LET rq == requests[r] IN
        /\ (Streamed(rq) /\ rq.ended /\ ~ValidJson(rq.req.wire)) =>
              /\ rq.pc = "crashed"
              /\ rq.thrown = "SyntaxError"
              /\ rq.validation = "none"
              /\ rq.calls = <<>>
              /\ rq.sent = <<>>
        /\ rq.thrown = "SyntaxError" => (Streamed(rq) /\ ~ValidJson(rq.req.wire))

\* a body cut short after its first tokens has met its end event
C17_Witness ==
    \E r \in RequestIds :
        /\ Streamed(requests[r])
        /\ requests[r].ended
        /\ Len(requests[r].req.wire) >= 2
        /\ requests[r].chunks >= 1
        /\ requests[r].thrown = "SyntaxError"

\* the response the request's own validation and handler outcome call for
ResponseFor(rq) ==
    IF rq.validation = "failed" THEN [status |-> 401]
    ELSE IF rq.handler = "resolved" THEN [status |-> 202]
    ELSE IF Has(rq.error, "message") THEN [status |-> 500, body |-> rq.error.message]
    ELSE [status |-> 500]

\* processRequest has run to its end for the request, by return or by throw
Processed(rq) ==
    /\ rq.validation # "none"
    /\ rq.pc \in {"done", "crashed"}

\* C18: with requests processed side by side and their events in any order,
\* each request that reaches processRequest receives exactly one response,
\* and that response is the one its own validation result and handler outcome
\* call for, whatever the other requests do.
C18_OneResponseEach ==
    \A r \in RequestIds :
        LET rq == requests[r] IN
        /\ Len(rq.sent) <= 1
        /\ Processed(rq) => rq.sent = <<ResponseFor(rq)>>

\* ---------------------------------------------------------------------
\* The receive-handler of an adapter

\* the requests whose activity passed validation
Authenticated == {r \in RequestIds : requests[r].validation = "ok"}

\* the handlers a request's activity was dispatched to
DispatchedTo(r) == {requests[r].calls[k].handler : k \in DOMAIN requests[r].calls}

\* C13: the receive-handler, once supplied, never changes, and whichever of
\* the request handlers returned by listen() a request came through, its
\* authenticated activity is dispatched to that one handler of the adapter:
\* no activity ever goes to another function, and an activity authenticated
\* while the handler was in place is dispatched to it exactly once.
C13_SingleHandler ==
    /\ [](\A r \in RequestIds : DispatchedTo(r) \subseteq {onReceive})
    /\ [](\A r \in Authenticated :
             requests[r].registered =>
                 /\ Len(requests[r].calls) = 1
                 /\ requests[r].calls[1].handler = onReceive
                 /\ requests[r].calls[1].handler \in Handlers)
    /\ [][onReceive # Undefined => onReceive' = onReceive]_vars

\* two authenticated activities that came through different request
\* handlers, one of them returned by listen() before the handler was
\* supplied, have both been dispatched to the adapter's handler
C13_Witness ==
    /\ onReceive \in Handlers
    /\ requests["r1"].via # requests["r2"].via
    /\ \A r \in RequestIds :
          /\ requests[r].validation = "ok"
          /\ DispatchedTo(r) = {onReceive}
    /\ \E l \in ListenerIds :
          /\ listeners[l].created
          /\ listeners[l].onReceiveThen = Undefined
          /\ \E r \in RequestIds : requests[r].via = l

\* ---------------------------------------------------------------------
\* The bot's replies

NormalizedText(request) ==
    IF Has(request, "text") THEN toLowerCase(trim(request.text)) ELSE <<>>

ReceivedText(request) == IF Has(request, "text") THEN request.text ELSE <<>>

\* C14: a message activity gets exactly one reply, chosen by its trimmed and
\* lowercased text: the hero card for 'show me a hero card', the image for
\* 'send me a botframework image', and for any other text an echo of the
\* received message.
C14_EchoesOtherText ==
    (context.state = "done" /\ context.request.type = "message") =>
        /\ Len(context.replies) = 1
        /\ LET text == NormalizedText(context.request)
               sent == context.replies[1]
           IN  CASE text = <<"show me a hero card">> ->
                        Has(sent, "attachment") /\ sent.attachment.card = "heroCard"
                 [] text = <<"send me a botframework image">> ->
                        Has(sent, "contentUrl") /\ sent.contentType = "image/jpeg"
                 [] text # <<>> ->
                        Has(sent, "text") /\ sent.text = ReceivedText(context.request)
                 [] OTHER -> TRUE

====
